---- MODULE Spec2Model ----
(***************************************************************************)
(* The Wanted LaaS request adapters of n8n-nodes-wanted-laas.              *)
(*                                                                         *)
(* Six entry points share one shape (credentials check, request body,     *)
(* one HTTP POST, response extraction):                                    *)
(*   "node"   WantedLaaS.execute        src/nodes/WantedLaaS/...node.ts    *)
(*   "range"  WantedLaaS.execute        src/unnamed/part_000 (range checks)*)
(*   "plain"  WantedLaaS.execute        src/unnamed/part_001               *)
(*   "lmchat" LmChatWantedLaaS          src/unnamed/part_000 (fetch hook)  *)
(*   "invoke" WantedLaaSChatModel       src/unnamed/part_002 (invoke)      *)
(*   "wrapper" WantedLaasChatModel      src/unnamed/part_002 (_call)       *)
(*                                                                         *)
(* Text is a sequence of one-character strings, so that trim() is          *)
(* computed; an error message is a sequence of string fragments, so that   *)
(* template literals are concatenations.  An optional JSON key is a set:   *)
(* {} when the key is absent (undefined), {v} when it holds v.             *)
(***************************************************************************)
EXTENDS Integers, Sequences, FiniteSets, TLC

VARIABLES
    variant,        \* which entry point this run drives
    focus,          \* which family of inputs the host supplies in this run
    credentials,    \* getCredentials('wantedLaaSApi'): [apiKey, project]
    continueOnFail, \* what this.continueOnFail() answers
    nItems,         \* items.length of getInputData()
    pc,             \* position of the entry point
    i,              \* loop index of execute
    current,        \* the parameters of the running item or model call, with its index
    reply,          \* what the awaited request of that item or call came back with
    closure,        \* what supplyData captured for the model it handed out
    inflight,       \* the HTTP request awaiting its answer, or NoRequest
    reqCount,       \* item index (execute) or call number |-> requests issued for it
    calls,          \* model calls made on the supplied model
    returnData,     \* execute's returnData
    thrown,         \* the error the entry point threw, {} if none
    result,         \* outcome of the last model call (invoke, _call, fetch hook)
    byReference,    \* the host's getNodeParameter hands out the object it stores, not a copy
    nodeFields,     \* configured additionalFields |-> the stored object, where execute changed it
    sent,           \* the requests the HTTP mock has seen (kept in the options runs)
    log             \* the last record written with console.log / console.error

vars == <<variant, focus, credentials, continueOnFail, nItems, pc, i,
          current, reply, closure, inflight, reqCount, calls, returnData, thrown, result,
          byReference, nodeFields, sent, log>>

---------------------------------------------------------------------------
(* Bounds                                                                  *)

MaxItems == 2
MaxCalls == 2

---------------------------------------------------------------------------
(* Text                                                                    *)

IsSpace(c) == c \in {" ", "\n"}

RECURSIVE TrimStart(_)
TrimStart(s) ==
    IF s # <<>> /\ IsSpace(Head(s)) THEN TrimStart(Tail(s)) ELSE s

RECURSIVE TrimEnd(_)
TrimEnd(s) ==
    IF s # <<>> /\ IsSpace(s[Len(s)]) THEN TrimEnd(SubSeq(s, 1, Len(s) - 1)) ELSE s

\* String.prototype.trim
Trim(s) == TrimEnd(TrimStart(s))

\* JavaScript truthiness of a string, and of an optional string
Truthy(s) == s # <<>>
TruthyOpt(o) == \E s \in o : Truthy(s)

---------------------------------------------------------------------------
(* Values supplied by the host and by the remote service                   *)

Absent == {}
Some(v) == {v}

\* A value of the 'json' field params: a parsed object (its keys) or a string
ObjectValue(keys) == [t |-> "object", keys |-> keys, text |-> <<>>]
StringValue(text) == [t |-> "string", keys |-> {}, text |-> text]
NumberValue == [t |-> "number", keys |-> {}, text |-> <<>>]

EmptyObjectText == <<"{", "}">>
ObjectText == <<"{", "k", "}">>
NumberText == <<"1">>
MalformedText == <<"{", "k">>

\* JSON.parse on the texts above: {} when it throws a SyntaxError
JSONParse(text) ==
    CASE text = EmptyObjectText -> Some(ObjectValue({}))
      [] text = ObjectText -> Some(ObjectValue({"k"}))
      [] text = NumberText -> Some(NumberValue)
      [] OTHER -> Absent

SyntaxErrorMessage == <<"Unexpected end of JSON input">>

\* Object.keys(value).length: a string has one key per character
KeyCount(value) == IF value.t = "string" THEN Len(value.text) ELSE Cardinality(value.keys)

\* The collection additionalFields / modelParameters / options as the host hands it over
NoFields ==
    [response_format |-> Absent, temperature |-> Absent, max_tokens |-> Absent,
     top_p |-> Absent, frequency_penalty |-> Absent, presence_penalty |-> Absent, params |-> Absent]

HashValues == {<<>>, <<" ">>, <<"h">>}
PromptValues == {<<>>, <<"s">>}
Operations == {"chat", "other"}

\* What getNodeParameter yields for one item of execute, per family of inputs
BaseItem ==
    [hash |-> <<"h">>, operation |-> "chat", params |-> ObjectValue({}),
     system_prompt |-> <<>>, message |-> <<"m">>, temperature |-> 1,
     additionalFields |-> NoFields]

FlowItems ==
    {[BaseItem EXCEPT !.hash = h, !.system_prompt = s, !.message = m] :
        h \in HashValues, s \in PromptValues, m \in PromptValues}
    \cup {[BaseItem EXCEPT !.operation = "other"], [BaseItem EXCEPT !.temperature = 3]}
    \cup {[BaseItem EXCEPT !.params = v] :
            v \in {ObjectValue({"k"}), StringValue(ObjectText), StringValue(MalformedText)}}

SamplingFields ==
    [response_format : {Absent}, temperature : {Absent}, max_tokens : {Absent},
     top_p : {Absent} \cup {Some(n) : n \in -1 .. 2},
     frequency_penalty : {Absent} \cup {Some(n) : n \in {-3, -2, 2, 3}},
     presence_penalty : {Absent} \cup {Some(n) : n \in {-3, -2, 2, 3}},
     params : {Absent}]

\* Every combination of boundary values, and every item that sets at most two
\* of the four options
OptionsSet(t, af) ==
    (IF t # 1 THEN 1 ELSE 0) + Cardinality(af.top_p)
        + Cardinality(af.frequency_penalty) + Cardinality(af.presence_penalty)

AtBoundaries(t, af) ==
    /\ t \in {0, 2}
    /\ af.top_p \subseteq {0, 1}
    /\ af.frequency_penalty \subseteq {-2, 2}
    /\ af.presence_penalty \subseteq {-2, 2}

SamplingItems ==
    {[BaseItem EXCEPT !.temperature = t, !.additionalFields = af] :
        <<t, af>> \in {x \in (-1 .. 3) \X SamplingFields :
                          AtBoundaries(x[1], x[2]) \/ OptionsSet(x[1], x[2]) <= 2}}

\* The options a user can add to the collection: the two response formats, the
\* max-tokens value -1, and a pair of sampling options
OptionFields ==
    {NoFields,
     [NoFields EXCEPT !.response_format = Some("text")],
     [NoFields EXCEPT !.response_format = Some("json_object")],
     [NoFields EXCEPT !.max_tokens = Some(-1)],
     [NoFields EXCEPT !.max_tokens = Some(5), !.top_p = Some(1)]}

\* WantedLaaS.node.ts declares no response_format among its additional fields
OptionItems(v) ==
    {[BaseItem EXCEPT !.additionalFields = af] :
        af \in {x \in OptionFields : v = "node" => x.response_format = Absent}}

ItemValues(f, v) ==
    CASE f = "sampling" -> SamplingItems
      [] f = "options" -> OptionItems(v)
      [] f = "status" -> {BaseItem}
      [] OTHER -> FlowItems

\* A response body: choices is missing, an array, a non-array object with
\* numeric keys ("object"), or a scalar; entries are the choices it holds
Choice(hasMessage, content) == [hasMessage |-> hasMessage, content |-> content]

ResponseBody(choicesKind, entries, id) ==
    [choices |-> choicesKind, entries |-> entries, id |-> id,
     model |-> Some(<<"m">>), usage |-> Some("u")]

ContentValues == {<<>>, <<" ">>, <<" ", "h", "i", " ">>}

FlowResponses ==
    {ResponseBody("missing", <<>>, Some(<<"i", "d">>)),
     ResponseBody("array", <<>>, Some(<<"i", "d">>)),
     ResponseBody("array", <<Choice(FALSE, Absent)>>, Some(<<"i", "d">>)),
     ResponseBody("array", <<Choice(TRUE, Absent)>>, Some(<<"i", "d">>)),
     ResponseBody("scalar", <<>>, Some(<<"i", "d">>)),
     ResponseBody("array", <<Choice(TRUE, Some(<<"h", "i">>))>>, Absent),
     [ResponseBody("array", <<Choice(TRUE, Some(<<"h", "i">>))>>, Some(<<"i", "d">>))
        EXCEPT !.model = Absent]}
    \cup {ResponseBody("array", <<Choice(TRUE, Some(c))>>, Some(<<"i", "d">>)) :
            c \in ContentValues}

SamplingResponses ==
    {ResponseBody("array", <<Choice(TRUE, Some(<<"h", "i">>))>>, Some(<<"i", "d">>))}

\* helpers.request resolves with a body, or with nothing (undefined, null, '')
Resolutions(f) ==
    IF f # "flow" THEN {Some(r) : r \in SamplingResponses}
    ELSE {Absent} \cup {Some(r) : r \in FlowResponses}

\* The error helpers.request rejects with: its own message, and the HTTP
\* response (status, data.message) when the server answered
TransportMessage(status) == <<"Request failed with status code ", ToString(status)>>
NetworkMessage == <<"connect ECONNREFUSED">>
ServerMessage == <<"quota">>

HttpError(status, data) ==
    [message |-> TransportMessage(status),
     response |-> Some([status |-> status, data |-> data])]
NetworkError == [message |-> NetworkMessage, response |-> Absent]

\* The statuses the code names, two it does not, and three shapes of data
StatusValues == {400, 401, 403, 429, 500, 503}

StatusRejections ==
    {NetworkError}
    \cup {HttpError(status, data) :
            status \in StatusValues, data \in {Absent, Some(<<>>), Some(ServerMessage)}}

Rejections(f) ==
    IF f = "status" THEN StatusRejections
    ELSE IF f # "flow" THEN {HttpError(429, Absent)}
    ELSE {NetworkError, HttpError(429, Absent), HttpError(429, Some(ServerMessage)),
          HttpError(500, Absent), HttpError(500, Some(ServerMessage))}

\* What getNodeParameter yields to supplyData
SupplyFields ==
    {NoFields,
     [NoFields EXCEPT !.response_format = Some("json_object"), !.temperature = Some(1)]}

SupplyParams ==
    {ObjectValue({}), ObjectValue({"k"}), StringValue(ObjectText), StringValue(MalformedText)}

\* The 'options' collection of LmChatWantedLaaS, under the names its
\* description declares (maxRetries and timeout do not reach the body)
NoOptions ==
    [frequency_penalty |-> Absent, max_tokens |-> Absent, presence_penalty |-> Absent,
     responseFormat |-> Absent, temperature |-> Absent, top_p |-> Absent]

LmChatOptions(f) ==
    {NoOptions,
     [NoOptions EXCEPT !.responseFormat = Some("json_object"), !.temperature = Some(1)]}
    \cup (IF f = "options"
          THEN {[NoOptions EXCEPT !.responseFormat = Some("text")],
                [NoOptions EXCEPT !.max_tokens = Some(-1)],
                [NoOptions EXCEPT !.max_tokens = Some(5), !.top_p = Some(1)]}
          ELSE {})

SupplyValues(f, v) ==
    [hash : IF f \in {"options", "status"} THEN {<<"h">>} ELSE HashValues,
     fields : IF v = "lmchat" THEN LmChatOptions(f)
              ELSE IF f = "options" THEN OptionFields ELSE SupplyFields,
     params : IF f \in {"options", "status"} THEN {ObjectValue({})} ELSE SupplyParams]

\* What the chain hands to the supplied model: a prompt (invoke), LangChain
\* messages (_call), or the OpenAI client's fetch arguments (fetch hook)
ChainMessage(type, content) == [type |-> type, content |-> content]

ChainMessages ==
    {<<>>, <<ChainMessage("human", <<"m">>)>>,
     <<ChainMessage("system", <<"s">>), ChainMessage("human", <<"m">>)>>,
     <<ChainMessage("ai", <<"a">>)>>}

ChatCompletionsUrl == "https://api-laas.wanted.co.kr/api/preset/v2/chat/completions"
ModelsUrl == "https://api-laas.wanted.co.kr/api/preset/v2/models"
FetchUrls == {ModelsUrl, ChatCompletionsUrl}

\* options.<name>: undefined when the collection has no key of that name
Property(o, name) == IF name \in DOMAIN o THEN o[name] ELSE Absent

\* What supplyData constructs ChatOpenAI with, and the modelKwargs it sets
ChatOpenAIFields(o) ==
    [temperature |-> Property(o, "temperature"),
     maxTokens |-> IF Property(o, "maxTokens") = Some(-1) THEN Absent
                   ELSE Property(o, "maxTokens"),
     topP |-> Property(o, "topP"),
     frequencyPenalty |-> Property(o, "frequencyPenalty"),
     presencePenalty |-> Property(o, "presencePenalty"),
     modelKwargs |-> IF Property(o, "responseFormat") = Some("json_object")
                     THEN Some([nested |-> TRUE, type |-> "json_object"]) ELSE Absent]

\* init.body after JSON.parse, the keys the hook reads: the client sends the
\* sampling fields it was constructed with and its modelKwargs
ClientBody(model, messages) ==
    [messages |-> messages, temperature |-> model.temperature,
     max_tokens |-> model.maxTokens, top_p |-> model.topP,
     frequency_penalty |-> model.frequencyPenalty,
     presence_penalty |-> model.presencePenalty,
     response_format |-> model.modelKwargs]

FetchInits(c) ==
    LET model == ChatOpenAIFields(c.fields) IN
    {Absent,
     Some(ClientBody(model, Absent)),
     Some(ClientBody(model, Some(<<>>))),
     Some(ClientBody(model, Some(<<[role |-> "user", content |-> <<"m">>]>>)))}

CallValues(v, c) ==
    CASE v = "invoke" -> [prompt : PromptValues]
      [] v = "wrapper" -> [messages : ChainMessages]
      [] v = "lmchat" -> [url : FetchUrls, init : FetchInits(c)]

CredentialValues ==
    [apiKey : {Absent, Some(<<>>), Some(<<"k">>)}, project : {Absent, Some(<<"p">>)}]

---------------------------------------------------------------------------
(* Request construction                                                    *)

\* A template literal `${x}` of an optional string
Interpolate(o) == IF o = Absent THEN <<"undefined">> ELSE CHOOSE s \in o : TRUE

Message(role, content) == [role |-> role, content |-> content]

\* { hash, ...fields }: the keys the collection holds, response_format as the raw string
HashAndFields(hash, fields) ==
    [hash |-> hash,
     messages |-> Absent,
     temperature |-> fields.temperature,
     max_tokens |-> fields.max_tokens,
     top_p |-> fields.top_p,
     frequency_penalty |-> fields.frequency_penalty,
     presence_penalty |-> fields.presence_penalty,
     response_format |-> {[nested |-> FALSE, type |-> f] : f \in fields.response_format},
     params |-> fields.params]

\* response_format: { type: <format> } when the collection holds a truthy format
NestFormat(body, fields) ==
    IF \E f \in fields.response_format : f # ""
    THEN [body EXCEPT !.response_format =
              {[nested |-> TRUE, type |-> f] : f \in fields.response_format}]
    ELSE body

\* WantedLaaS.node.ts: the user entry is always pushed
NodeMessages(p) ==
    (IF Truthy(p.system_prompt) THEN <<Message("system", p.system_prompt)>> ELSE <<>>)
        \o <<Message("user", p.message)>>

\* part_000 and part_001: the user entry is pushed only for a truthy message
GuardedMessages(p) ==
    (IF Truthy(p.system_prompt) THEN <<Message("system", p.system_prompt)>> ELSE <<>>)
        \o (IF Truthy(p.message) THEN <<Message("user", p.message)>> ELSE <<>>)

\* messages and temperature as part_000 and part_001 attach them
WithMessagesAndTemperature(body, p) ==
    [body EXCEPT !.messages = IF GuardedMessages(p) # <<>>
                               THEN Some(GuardedMessages(p)) ELSE Absent,
                 !.temperature = Some(p.temperature)]

\* What one loop iteration has when it reaches the HTTP call: an error thrown
\* before it, or the request body
Thrown(message) == [error |-> Some(message), body |-> Absent]
Built(body) == [error |-> Absent, body |-> Some(body)]

NodeBuild(p) ==
    LET af == p.additionalFields
        spread == HashAndFields(p.hash, af)
    IN Built([spread EXCEPT
                  !.params = IF af.params # Absent THEN af.params ELSE Some(p.params),
                  !.messages = Some(NodeMessages(p)),
                  !.temperature = IF af.temperature # Absent THEN af.temperature
                                  ELSE Some(p.temperature)])

\* v <= lo: a boundary value is refused
OutOfRange_Strict(o, lo, hi) == \E v \in o : v <= lo \/ v > hi

OutOfRange(o, lo, hi) == \E v \in o : v < lo \/ v > hi

TemperatureRangeMessage == <<"Temperature must be between 0 and 2">>
TopPRangeMessage == <<"Top P must be a number between 0 and 1">>
FrequencyRangeMessage == <<"Frequency penalty must be a number between -2 and 2">>
PresenceRangeMessage == <<"Presence penalty must be a number between -2 and 2">>

\* The presence penalty check left out
RangeViolation_NoPresence(p) ==
    LET af == p.additionalFields IN
    IF OutOfRange(Some(p.temperature), 0, 2) THEN Some(TemperatureRangeMessage)
    ELSE IF OutOfRange(af.top_p, 0, 1) THEN Some(TopPRangeMessage)
    ELSE IF OutOfRange(af.frequency_penalty, -2, 2) THEN Some(FrequencyRangeMessage)
    ELSE Absent

\* The range checks of part_000, in the order the code makes them
RangeViolation(p) ==
    LET af == p.additionalFields IN
    IF OutOfRange(Some(p.temperature), 0, 2) THEN Some(TemperatureRangeMessage)
    ELSE IF OutOfRange(af.top_p, 0, 1) THEN Some(TopPRangeMessage)
    ELSE IF OutOfRange(af.frequency_penalty, -2, 2) THEN Some(FrequencyRangeMessage)
    ELSE IF OutOfRange(af.presence_penalty, -2, 2) THEN Some(PresenceRangeMessage)
    ELSE Absent

ParamsTruthy(o) == \E v \in o : v.t # "string" \/ v.text # <<>>

\* typeof params === 'string' ? JSON.parse(params) : params
ParsedParams(value) == IF value.t = "string" THEN JSONParse(value.text) ELSE Some(value)

InvalidParams(message) == <<"Invalid params format: ">> \o message

RangeBuild(p) ==
    LET af == p.additionalFields
        spread == HashAndFields(p.hash, af)
        parsed == ParsedParams(p.params)
        rest(body) == Built(NestFormat(WithMessagesAndTemperature(body, p), af))
    IN IF RangeViolation(p) # Absent THEN Thrown(CHOOSE m \in RangeViolation(p) : TRUE)
       ELSE IF ~ParamsTruthy(spread.params) THEN rest(spread)
       ELSE IF parsed = Absent THEN Thrown(InvalidParams(SyntaxErrorMessage))
       ELSE IF \E v \in parsed : v.t # "object"
            THEN Thrown(InvalidParams(<<"Params must be a valid JSON object">>))
       ELSE rest([spread EXCEPT !.params = parsed])

PlainBuild(p) ==
    LET af == p.additionalFields
        spread == HashAndFields(p.hash, af)
        parsed == ParsedParams(p.params)
        rest(body) == Built(NestFormat(WithMessagesAndTemperature(body, p), af))
    IN IF ~(ParamsTruthy(spread.params) /\ \E v \in spread.params : KeyCount(v) > 0)
       THEN rest(spread)
       ELSE IF parsed = Absent THEN Thrown(SyntaxErrorMessage)
       ELSE rest([spread EXCEPT !.params = parsed])

ItemBuild(v, p) ==
    CASE v = "node" -> NodeBuild(p)
      [] v = "range" -> RangeBuild(p)
      [] v = "plain" -> PlainBuild(p)

Headers(cred) ==
    [project |-> Interpolate(cred.project), apiKey |-> Interpolate(cred.apiKey),
     contentType |-> "application/json"]

Request(cred, body, unit) ==
    [method |-> "POST", url |-> ChatCompletionsUrl, headers |-> Headers(cred),
     body |-> body, unit |-> unit]

---------------------------------------------------------------------------
(* Response handling                                                       *)

\* response.choices[0] where choices can be indexed
FirstChoice(r) ==
    IF r.choices \in {"array", "object"} /\ Len(r.entries) > 0
    THEN Some(r.entries[1]) ELSE Absent

\* response?.choices?.[0]?.message?.content
FirstContent(resolution) ==
    UNION {UNION {IF c.hasMessage THEN c.content ELSE Absent : c \in FirstChoice(r)} :
             r \in resolution}

InvalidFormatMessage == <<"Invalid response format from Wanted LaaS API">>
EmptyResponseMessage == <<"Empty response from API">>
MissingChoicesMessage == <<"Invalid response format: missing choices array">>
MissingContentMessage == <<"Invalid response format: missing message content">>
SubstringTypeError == <<"Cannot read properties of undefined (reading 'substring')">>

\* The error object of a NodeOperationError or TypeError: no HTTP response on it
PlainError(message) == [message |-> message, response |-> Absent]

Failure(error) == [error |-> Some(error), json |-> Absent]
Success(json) == [error |-> Absent, json |-> Some(json)]

\* messageContent of execute
MessageContent(resolution) == Trim(CHOOSE c \in FirstContent(resolution) : TRUE)

\* WantedLaaS.node.ts and part_001: one check, then { response }
SimpleExtract(resolution) ==
    IF ~TruthyOpt(FirstContent(resolution)) THEN Failure(PlainError(InvalidFormatMessage))
    ELSE Success([response |-> MessageContent(resolution)])

\* The three checks folded into the single check of the other variants
RangeExtract_OneCheck(resolution) ==
    IF ~TruthyOpt(FirstContent(resolution)) THEN Failure(PlainError(InvalidFormatMessage))
    ELSE Success([response |-> MessageContent(resolution)])

\* part_000: three checks in order, then { response, usage, model }
RangeExtract(resolution) ==
    IF resolution = Absent THEN Failure(PlainError(EmptyResponseMessage))
    ELSE LET r == CHOOSE x \in resolution : TRUE IN
         IF r.choices # "array" THEN Failure(PlainError(MissingChoicesMessage))
         ELSE IF ~TruthyOpt(FirstContent(resolution))
              THEN Failure(PlainError(MissingContentMessage))
         ELSE IF r.id = Absent THEN Failure(PlainError(SubstringTypeError))
         ELSE Success([response |-> MessageContent(resolution),
                       usage |-> r.usage, model |-> r.model])

ItemExtract(v, resolution) ==
    IF v = "range" THEN RangeExtract(resolution) ELSE SimpleExtract(resolution)

BadRequestMessage == <<"Bad request: Please check your input parameters">>
AuthenticationMessage == <<"Authentication failed: Please check your API credentials">>
ForbiddenMessage == <<"Access forbidden: Please check your API permissions">>
RateLimitMessage == <<"Too many requests: Please try again later">>

\* The switch without its case for 403
StatusMessage_No403(error) ==
    LET resp == CHOOSE x \in error.response : TRUE IN
    CASE resp.status = 400 -> BadRequestMessage
      [] resp.status = 401 -> AuthenticationMessage
      [] resp.status = 429 -> RateLimitMessage
      [] OTHER -> <<"API Error (", ToString(resp.status), "): ">>
                     \o (IF TruthyOpt(resp.data) THEN CHOOSE m \in resp.data : TRUE
                         ELSE error.message)

\* The switch on error.response.status
StatusMessage(error) ==
    LET resp == CHOOSE x \in error.response : TRUE IN
    CASE resp.status = 400 -> BadRequestMessage
      [] resp.status = 401 -> AuthenticationMessage
      [] resp.status = 403 -> ForbiddenMessage
      [] resp.status = 429 -> RateLimitMessage
      [] OTHER -> <<"API Error (", ToString(resp.status), "): ">>
                     \o (IF TruthyOpt(resp.data) THEN CHOOSE m \in resp.data : TRUE
                         ELSE error.message)

\* part_000's catch around the request: always a NodeOperationError
RangeClassify(error) ==
    PlainError(IF error.response = Absent THEN <<"Request to Wanted LaaS API failed">>
               ELSE StatusMessage(error))

\* The error the outer catch of execute sees for a rejected request
ItemRejection(v, error) == IF v = "range" THEN RangeClassify(error) ELSE error

\* error.response?.data
ErrorDetails(error) == UNION {resp.data : resp \in error.response}

---------------------------------------------------------------------------
(* State                                                                   *)

ExecuteVariants == {"node", "range", "plain"}
SupplyVariants == {"lmchat", "invoke", "wrapper"}

NoClosure == [hash |-> <<>>, fields |-> NoFields, params |-> ObjectValue({})]
NoResult == [kind |-> "none"]
NoCurrent == [index |-> -1, values |-> <<>>]
NoReply == [kind |-> "none"]
Resolved(resolution) == [kind |-> "resolved", body |-> resolution]
Rejected(error) == [kind |-> "rejected", error |-> error]

\* A record written to the console: its label and the fields it shows
LogRecord(tag, url, message, response, status, headers, body) ==
    [tag |-> tag, url |-> url, message |-> message, response |-> response,
     status |-> status, headers |-> headers, body |-> body]

NoLog == LogRecord("", Absent, Absent, Absent, Absent, Absent, Absent)

\* console.log('Request Data:', { url, body, headers: { project } })
RequestLog(request) ==
    LogRecord("Request Data:", Some(request.url), Absent, Absent, Absent,
              Some([project |-> request.headers.project]), Some(request.body))

\* console.error('Error details:', { message, response, status, headers,
\* requestBody, stack }): headers are those of the server's answer, of which
\* the answers here have none; node.ts shows no headers and no requestBody;
\* requestBody is still {} when nothing was sent
ErrorLog(v, error, request) ==
    LogRecord("Error details:", Absent, Some(error.message), ErrorDetails(error),
              {resp.status : resp \in error.response}, Absent,
              IF v = "node" THEN Absent ELSE {r.body : r \in request})

\* The error object helpers.request rejects with may carry the options of the
\* request it was given, as the errors of HTTP clients do
CarriedOptions(request) == {Absent, request}

\* console.error('Error calling Wanted LaaS API:', error): the whole object
HookLog(error, options) ==
    LogRecord("Error calling Wanted LaaS API:", {o.url : o \in options},
              Some(error.message), ErrorDetails(error),
              {resp.status : resp \in error.response},
              {o.headers : o \in options}, {o.body : o \in options})

InitCommon ==
    /\ credentials \in CredentialValues
    /\ continueOnFail \in BOOLEAN
    /\ nItems \in 0 .. MaxItems
    /\ pc = "entry"
    /\ i = 0
    /\ current = NoCurrent
    /\ reply = NoReply
    /\ closure = NoClosure
    /\ inflight = Absent
    /\ reqCount = <<>>
    /\ calls = 0
    /\ returnData = <<>>
    /\ thrown = Absent
    /\ result = NoResult
    /\ nodeFields = <<>>
    /\ sent = <<>>
    /\ log = NoLog

\* The flow and sampling inputs leave response_format unset, so nothing is ever
\* deleted from a parameter object and the two kinds of host are the same there
Init ==
    /\ variant \in ExecuteVariants \cup SupplyVariants
    /\ focus = "flow"
    /\ byReference = FALSE
    /\ InitCommon

InitExecute ==
    /\ variant \in ExecuteVariants
    /\ focus = "flow"
    /\ byReference = FALSE
    /\ InitCommon

InitSampling ==
    /\ variant = "range"
    /\ focus = "sampling"
    /\ byReference = FALSE
    /\ InitCommon

InitOptions ==
    /\ variant \in ExecuteVariants \cup SupplyVariants
    /\ focus = "options"
    /\ byReference \in BOOLEAN
    /\ InitCommon

\* The variants that classify a failed request by its status
ClassifyingVariants == {"range", "invoke", "wrapper"}

InitStatus ==
    /\ variant \in ClassifyingVariants
    /\ focus = "status"
    /\ byReference = FALSE
    /\ InitCommon

\* Requests issued for one item index or call number, and in all
Issued(unit) == IF unit \in DOMAIN reqCount THEN reqCount[unit] ELSE 0

RECURSIVE SumTo(_)
SumTo(n) == IF n < 0 THEN 0 ELSE Issued(n) + SumTo(n - 1)
TotalIssued == SumTo(MaxItems + MaxCalls)

Send(request, values) ==
    /\ inflight' = Some(request)
    /\ reqCount' = IF request.unit \in DOMAIN reqCount
                   THEN [reqCount EXCEPT ![request.unit] = @ + 1]
                   ELSE reqCount @@ (request.unit :> 1)
    /\ sent' = IF focus = "options"
               THEN Append(sent, [unit |-> request.unit, values |-> values,
                                  body |-> request.body])
               ELSE sent

\* credentials.apiKey !== undefined: an empty key passes
HasApiKey_DefinedOnly(cred) == cred.apiKey # Absent

\* !credentials?.apiKey
HasApiKey(cred) == TruthyOpt(cred.apiKey)
\* !credentials?.project
HasProject(cred) == TruthyOpt(cred.project)

NoApiKeyMessage == <<"No valid API key provided">>
NoProjectMessage == <<"No valid project provided">>
EmptyHashMessage == <<"Preset Hash cannot be empty">>

---------------------------------------------------------------------------
(* WantedLaaS.execute (three variants)                                     *)

\* Every entry paired to the first item
Entry_FirstItem(index, json) == [json |-> json, pairedItem |-> [item |-> 0]]

Entry(index, json) == [json |-> json, pairedItem |-> [item |-> index]]

\* The catch block without the continueOnFail branch: every error is rethrown
Catch_Rethrow(error) ==
    /\ log' = ErrorLog(variant, error, inflight)
    /\ thrown' = Some(error.message)
    /\ pc' = "threw"
    /\ UNCHANGED <<returnData, i>>

\* The catch block with the continueOnFail test left out: every failure is recorded
Catch_AlwaysContinue(error) ==
    /\ log' = ErrorLog(variant, error, inflight)
    /\ returnData' = Append(returnData,
           Entry(i, [error |-> error.message, errorDetails |-> ErrorDetails(error)]))
    /\ i' = i + 1
    /\ pc' = "loop"
    /\ thrown' = thrown

\* The catch block of the loop body
Catch(error) ==
    /\ log' = ErrorLog(variant, error, inflight)
    /\ IF continueOnFail
       THEN /\ returnData' = Append(returnData,
                   Entry(i, [error |-> error.message, errorDetails |-> ErrorDetails(error)]))
            /\ i' = i + 1
            /\ pc' = "loop"
            /\ thrown' = thrown
       ELSE /\ thrown' = Some(error.message)
            /\ pc' = "threw"
            /\ UNCHANGED <<returnData, i>>

\* getNodeParameter('additionalFields', i): a host that hands out the object it
\* stores hands out what an earlier iteration left of it
Received(p) ==
    IF p.additionalFields \in DOMAIN nodeFields
    THEN [p EXCEPT !.additionalFields = nodeFields[p.additionalFields]]
    ELSE p

\* delete additionalFields.response_format: part_000 and part_001 reach it when
\* nothing was thrown before and the collection holds a truthy format
DeletesFormat(v, q) ==
    /\ v \in {"range", "plain"}
    /\ q.operation = "chat"
    /\ ItemBuild(v, q).error = Absent
    /\ \E f \in q.additionalFields.response_format : f # ""

FieldsAfter(v, q) ==
    IF DeletesFormat(v, q) THEN [q.additionalFields EXCEPT !.response_format = Absent]
    ELSE q.additionalFields

\* getInputData, getCredentials and the API key check
ExecuteStart ==
    /\ variant \in ExecuteVariants
    /\ pc = "entry"
    /\ IF HasApiKey(credentials)
       THEN pc' = "loop" /\ thrown' = thrown
       ELSE pc' = "threw" /\ thrown' = Some(NoApiKeyMessage)
    /\ UNCHANGED <<variant, focus, byReference, nodeFields, sent, log,
                   credentials, continueOnFail, nItems, i, current,
                   reply, closure, inflight, reqCount, calls, returnData, result>>

\* One loop iteration up to the await of helpers.request
ExecuteItem ==
    /\ variant \in ExecuteVariants
    /\ pc = "loop"
    /\ i < nItems
    /\ reply' = NoReply
    /\ \E p \in ItemValues(focus, variant) :
          LET q == Received(p)
              built == ItemBuild(variant, q)
          IN
          /\ current' = [index |-> i, values |-> p]
          /\ nodeFields' = IF byReference /\ DeletesFormat(variant, q)
                           THEN (p.additionalFields :> FieldsAfter(variant, q)) @@ nodeFields
                           ELSE nodeFields
          /\ IF p.operation # "chat"
             THEN /\ i' = i + 1
                  /\ UNCHANGED <<pc, inflight, reqCount, sent, log, returnData, thrown>>
             ELSE IF built.error # Absent
             THEN /\ Catch(PlainError(CHOOSE m \in built.error : TRUE))
                  /\ UNCHANGED <<inflight, reqCount, sent>>
             ELSE /\ Send(Request(credentials, CHOOSE b \in built.body : TRUE, i), p)
                  /\ log' = RequestLog(Request(credentials, CHOOSE b \in built.body : TRUE, i))
                  /\ pc' = "await"
                  /\ UNCHANGED <<i, returnData, thrown>>
    /\ UNCHANGED <<variant, focus, byReference, credentials, continueOnFail, nItems, closure,
                   calls, result>>

\* helpers.request resolves: the response checks and the success entry
ExecuteResolves ==
    /\ variant \in ExecuteVariants
    /\ pc = "await"
    /\ \E resolution \in Resolutions(focus) :
          LET out == ItemExtract(variant, resolution) IN
          /\ reply' = Resolved(resolution)
          /\ IF out.error # Absent
             THEN Catch(CHOOSE e \in out.error : TRUE)
             ELSE /\ returnData' =
                        Append(returnData, Entry(i, CHOOSE j \in out.json : TRUE))
                  /\ i' = i + 1
                  /\ pc' = "loop"
                  /\ thrown' = thrown
                  /\ log' = log
    /\ inflight' = Absent
    /\ UNCHANGED <<variant, focus, byReference, nodeFields, sent,
                   credentials, continueOnFail, nItems, current,
                   closure, reqCount, calls, result>>

\* A rejected request is issued once more instead of reaching the catch block
ExecuteRejects_Retry ==
    /\ variant \in ExecuteVariants
    /\ pc = "await"
    /\ \E error \in Rejections(focus) : reply' = Rejected(error)
    /\ reqCount' = [reqCount EXCEPT ![i] = @ + 1]
    /\ UNCHANGED <<variant, focus, byReference, nodeFields, sent, log,
                   credentials, continueOnFail, nItems, pc, i, current,
                   closure, inflight, calls, returnData, thrown, result>>

\* helpers.request rejects
ExecuteRejects ==
    /\ variant \in ExecuteVariants
    /\ pc = "await"
    /\ \E error \in Rejections(focus) :
          /\ reply' = Rejected(error)
          /\ Catch(ItemRejection(variant, error))
    /\ inflight' = Absent
    /\ UNCHANGED <<variant, focus, byReference, nodeFields, sent,
                   credentials, continueOnFail, nItems, current,
                   closure, reqCount, calls, result>>

\* return [returnData]
ExecuteReturn ==
    /\ variant \in ExecuteVariants
    /\ pc = "loop"
    /\ i = nItems
    /\ pc' = "returned"
    /\ UNCHANGED <<variant, focus, byReference, nodeFields, sent, log,
                   credentials, continueOnFail, nItems, i, current,
                   reply, closure, inflight, reqCount, calls, returnData, thrown, result>>

Execute == ExecuteStart \/ ExecuteItem \/ ExecuteResolves \/ ExecuteRejects \/ ExecuteReturn

---------------------------------------------------------------------------
(* supplyData and the model it hands out (three variants)                  *)

Returned(value) == [returned |-> Some(value), error |-> Absent, body |-> Absent]
Raised(message) == [returned |-> Absent, error |-> Some(message), body |-> Absent]
Prepared(body) == [returned |-> Absent, error |-> Absent, body |-> Some(body)]

\* "Merge additional parameters": params is attached when it has keys
WithParams(body, params) ==
    IF KeyCount(params) = 0 THEN Prepared(body)
    ELSE IF ParsedParams(params) = Absent THEN Raised(InvalidParams(SyntaxErrorMessage))
    ELSE Prepared([body EXCEPT !.params = ParsedParams(params)])

\* WantedLaaSChatModel: invoke(prompt) up to the request
InvokeBuild(c, a) ==
    LET spread == HashAndFields(c.hash, c.fields)
        body == [spread EXCEPT !.messages = Some(<<Message("user", a.prompt)>>)]
    IN WithParams(NestFormat(body, c.fields), c.params)

\* msg._getType() === 'human' ? 'user' : ... === 'assistant' ? 'assistant' : 'system'
ChainRole(type) ==
    IF type = "human" THEN "user" ELSE IF type = "assistant" THEN "assistant" ELSE "system"

\* WantedLaasChatModel: wantedLaaSWrapper(messages) up to the request
WrapperBuild(c, a) ==
    LET spread == HashAndFields(c.hash, c.fields)
        mapped == [k \in 1 .. Len(a.messages) |->
                      Message(ChainRole(a.messages[k].type), a.messages[k].content)]
        body == [spread EXCEPT !.messages = Some(mapped)]
    IN WithParams(NestFormat(body, c.fields), c.params)

\* endpoint.includes('/chat/completions'), on the URLs the client asks for
IsCompletionsEndpoint(url) == url \in {ChatCompletionsUrl}

FetchResponse(status, json) == [status |-> status, json |-> json]

\* LmChatWantedLaaS: the fetch hook up to the request
FetchBuild(c, a) ==
    LET read(key) == UNION {b[key] : b \in a.init}
        body == [hash |-> c.hash,
                 messages |-> IF read("messages") = Absent THEN Some(<<>>)
                              ELSE read("messages"),
                 temperature |-> read("temperature"),
                 max_tokens |-> read("max_tokens"),
                 top_p |-> read("top_p"),
                 frequency_penalty |-> read("frequency_penalty"),
                 presence_penalty |-> read("presence_penalty"),
                 response_format |-> read("response_format"),
                 params |-> Absent]
    IN IF ~IsCompletionsEndpoint(a.url)
       THEN Returned(FetchResponse(404, [error |-> <<"Unsupported endpoint">>]))
       ELSE WithParams(body, c.params)

CallBuild(v, c, a) ==
    CASE v = "invoke" -> InvokeBuild(c, a)
      [] v = "wrapper" -> WrapperBuild(c, a)
      [] v = "lmchat" -> FetchBuild(c, a)

Ended(value) == [kind |-> "returned", value |-> value]
Threw(message) == [kind |-> "threw", error |-> message]

IdTypeError == <<"Cannot read properties of undefined (reading 'id')">>

\* The hook's 200 answer: the upstream body copied field by field
OpenAIResponse(c, r) ==
    [id |-> r.id, model |-> IF TruthyOpt(r.model) THEN r.model ELSE Some(c.hash),
     choices |-> r.choices, entries |-> r.entries, usage |-> r.usage]

\* What a model call makes of a resolved request
CallResolved(v, c, resolution) ==
    LET content == CHOOSE x \in FirstContent(resolution) : TRUE IN
    CASE v = "lmchat" ->
            IF resolution = Absent THEN Ended(FetchResponse(500, [error |-> IdTypeError]))
            ELSE Ended(FetchResponse(200, OpenAIResponse(c, CHOOSE r \in resolution : TRUE)))
      [] v = "invoke" ->
            IF ~TruthyOpt(FirstContent(resolution)) THEN Threw(InvalidFormatMessage)
            ELSE Ended([output |-> content])
      [] v = "wrapper" ->
            IF ~TruthyOpt(FirstContent(resolution)) THEN Threw(InvalidFormatMessage)
            ELSE Ended(content)

\* The hook answering with the upstream status where there is one
CallRejected_UpstreamStatus(v, error) ==
    IF v = "lmchat"
    THEN Ended(FetchResponse(IF error.response = Absent THEN 500
                             ELSE CHOOSE st \in {resp.status : resp \in error.response} : TRUE,
                             [error |-> error.message]))
    ELSE IF error.response # Absent THEN Threw(StatusMessage(error))
    ELSE Threw(error.message)

\* What a model call makes of a rejected request
CallRejected(v, error) ==
    IF v = "lmchat" THEN Ended(FetchResponse(500, [error |-> error.message]))
    ELSE IF error.response # Absent THEN Threw(StatusMessage(error))
    ELSE Threw(error.message)

\* supplyData: credentials, parameters, the hash check, the model
SupplyData ==
    /\ variant \in SupplyVariants
    /\ pc = "entry"
    /\ \E v \in SupplyValues(focus, variant) :
          IF ~HasApiKey(credentials)
          THEN pc' = "threw" /\ thrown' = Some(NoApiKeyMessage) /\ closure' = closure
          ELSE IF ~HasProject(credentials)
          THEN pc' = "threw" /\ thrown' = Some(NoProjectMessage) /\ closure' = closure
          ELSE IF ~Truthy(Trim(v.hash))
          THEN pc' = "threw" /\ thrown' = Some(EmptyHashMessage) /\ closure' = closure
          ELSE pc' = "supplied" /\ thrown' = thrown /\ closure' = v
    /\ UNCHANGED <<variant, focus, byReference, nodeFields, sent, log,
                   credentials, continueOnFail, nItems, i, current,
                   reply, inflight, reqCount, calls, returnData, result>>

\* The chain calls the model: invoke, _call or the fetch hook, up to the await
ModelCall ==
    /\ variant \in SupplyVariants
    /\ pc = "supplied"
    /\ calls < MaxCalls
    /\ calls' = calls + 1
    /\ reply' = NoReply
    /\ \E a \in CallValues(variant, closure) :
          LET built == CallBuild(variant, closure, a) IN
          /\ current' = [index |-> calls', values |-> a]
          /\ IF built.returned # Absent
             THEN /\ result' = Ended(CHOOSE x \in built.returned : TRUE)
                  /\ UNCHANGED <<pc, inflight, reqCount, sent>>
             ELSE IF built.error # Absent
             THEN /\ result' = Threw(CHOOSE m \in built.error : TRUE)
                  /\ UNCHANGED <<pc, inflight, reqCount, sent>>
             ELSE /\ Send(Request(credentials, CHOOSE b \in built.body : TRUE, calls'), a)
                  /\ pc' = "await"
                  /\ result' = NoResult
    /\ UNCHANGED <<variant, focus, byReference, nodeFields, log,
                   credentials, continueOnFail, nItems, i, closure,
                   returnData, thrown>>

ModelResolves ==
    /\ variant \in SupplyVariants
    /\ pc = "await"
    /\ \E resolution \in Resolutions(focus) :
          /\ reply' = Resolved(resolution)
          /\ result' = CallResolved(variant, closure, resolution)
          /\ log' = IF variant = "lmchat" /\ resolution = Absent
                    THEN HookLog(PlainError(IdTypeError), Absent)
                    ELSE log
    /\ pc' = "supplied"
    /\ inflight' = Absent
    /\ UNCHANGED <<variant, focus, byReference, nodeFields, sent,
                   credentials, continueOnFail, nItems, i, current,
                   closure, reqCount, calls, returnData, thrown>>

ModelRejects ==
    /\ variant \in SupplyVariants
    /\ pc = "await"
    /\ \E error \in Rejections(focus) :
          /\ reply' = Rejected(error)
          /\ result' = CallRejected(variant, error)
          /\ IF variant = "lmchat"
             THEN \E options \in CarriedOptions(inflight) : log' = HookLog(error, options)
             ELSE log' = log
    /\ pc' = "supplied"
    /\ inflight' = Absent
    /\ UNCHANGED <<variant, focus, byReference, nodeFields, sent,
                   credentials, continueOnFail, nItems, i, current,
                   closure, reqCount, calls, returnData, thrown>>

Supply == SupplyData \/ ModelCall \/ ModelResolves \/ ModelRejects

Next == Execute \/ Supply

Spec == Init /\ [][Next]_vars

\* execute alone, on the flow inputs
SpecExecute == InitExecute /\ [][Execute]_vars

\* The range-checking execute alone, on the sampling inputs
SpecSampling == InitSampling /\ [][Execute]_vars

\* Every entry point on the option inputs, with either kind of host
SpecOptions == InitOptions /\ [][Next]_vars

\* The classifying variants over every status and shape of error data
SpecStatus == InitStatus /\ [][Next]_vars

---------------------------------------------------------------------------
(* Properties                                                              *)

LastEntry == returnData[Len(returnData)]

\* The item execute last started has ended, and ended in a failure whose
\* message is one of messages: a marker paired to it under continue-on-fail,
\* the thrown error otherwise
ItemFailedWith(messages) ==
    IF continueOnFail
    THEN /\ pc \in {"loop", "returned"}
         /\ Len(returnData) > 0
         /\ LastEntry.pairedItem.item = current.index
         /\ "error" \in DOMAIN LastEntry.json
         /\ LastEntry.json.error \in messages
    ELSE /\ pc = "threw"
         /\ thrown # Absent
         /\ thrown \subseteq messages

\* C1: in every entry point, credentials without an API key make the call fail
\* with 'No valid API key provided', and no HTTP request has been issued,
\* whatever the number of input items.
C1_MissingApiKeyFailsBeforeAnyRequest ==
    ~TruthyOpt(credentials.apiKey) /\ pc # "entry" =>
        /\ pc = "threw"
        /\ thrown = Some(NoApiKeyMessage)
        /\ TotalIssued = 0
        /\ inflight = Absent
        /\ returnData = <<>>

C1_Witness ==
    /\ variant \in ExecuteVariants
    /\ nItems = MaxItems
    /\ credentials.apiKey = Some(<<>>)
    /\ pc = "threw"
    /\ thrown = Some(NoApiKeyMessage)

\* C2: in every entry point, credentials with an API key but without a project
\* id make the call fail with a configuration error before any HTTP request:
\* no request is issued, no model is supplied, and the error thrown is the
\* configuration error.
C2_MissingProjectFailsBeforeAnyRequest ==
    TruthyOpt(credentials.apiKey) /\ ~TruthyOpt(credentials.project) =>
        /\ TotalIssued = 0
        /\ pc # "supplied"
        /\ pc = "threw" => thrown = Some(NoProjectMessage)

\* C3: in every variant, a preset hash that is empty or only whitespace makes
\* the call fail with a validation error and no HTTP request carries it.
BlankHash(hash) == Trim(hash) = <<>>

C3_BlankHashFailsBeforeAnyRequest ==
    /\ \A r \in inflight : ~BlankHash(r.body.hash)
    /\ variant \in SupplyVariants /\ pc \in {"supplied", "await"} =>
          ~BlankHash(closure.hash)
    /\ /\ variant \in ExecuteVariants
       /\ current.index >= 0
       /\ current.values.operation = "chat"
       /\ BlankHash(current.values.hash)
       => /\ Issued(current.index) = 0
          /\ ItemFailedWith({EmptyHashMessage})

\* C4: in every variant, a response body whose choices is missing, is not an
\* array, is empty, or whose first entry has no non-empty message.content ends
\* the invocation in a response-format error, never in a success result.
BadChoices(r) ==
    \/ r.choices # "array"
    \/ r.entries = <<>>
    \/ ~r.entries[1].hasMessage
    \/ ~TruthyOpt(r.entries[1].content)

ResponseFormatMessages ==
    {InvalidFormatMessage, MissingChoicesMessage, MissingContentMessage}

C4_BadChoicesIsFormatError ==
    reply.kind = "resolved" /\ (\E r \in reply.body : BadChoices(r)) =>
        IF variant \in ExecuteVariants
        THEN ItemFailedWith(ResponseFormatMessages)
        ELSE result.kind = "threw" /\ result.error \in ResponseFormatMessages

\* C5: in every variant that returns text, the reply text for a valid response
\* is choices[0].message.content with leading and trailing whitespace removed.
ValidReply ==
    /\ reply.kind = "resolved"
    /\ \E r \in reply.body : ~BadChoices(r)

ReplyContent ==
    LET r == CHOOSE x \in reply.body : TRUE IN CHOOSE c \in r.entries[1].content : TRUE

C5_ReplyTextIsTrimmedContent ==
    ValidReply =>
        CASE variant \in ExecuteVariants ->
                (/\ pc \in {"loop", "returned"}
                 /\ Len(returnData) > 0
                 /\ LastEntry.pairedItem.item = current.index
                 /\ "response" \in DOMAIN LastEntry.json)
                => LastEntry.json.response = Trim(ReplyContent)
          [] variant = "invoke" ->
                result.kind = "returned" => result.value.output = Trim(ReplyContent)
          [] variant = "wrapper" ->
                result.kind = "returned" => result.value = Trim(ReplyContent)
          [] OTHER -> TRUE

\* C6: in every variant, a request that fails with status 429 surfaces a
\* failure whose message is 'Too many requests: Please try again later'.
RateLimited ==
    /\ reply.kind = "rejected"
    /\ \E resp \in reply.error.response : resp.status = 429

C6_RateLimitMessageSurfaced ==
    RateLimited =>
        CASE variant \in ExecuteVariants -> ItemFailedWith({RateLimitMessage})
          [] variant = "lmchat" ->
                result.kind = "returned" /\ result.value.json.error = RateLimitMessage
          [] OTHER -> result = Threw(RateLimitMessage)

\* C7: in the range-checking execute, an item whose temperature is outside
\* [0,2], whose top_p is outside [0,1] or whose frequency or presence penalty
\* is outside [-2,2] fails with a validation error naming an offending field
\* and its range, and no HTTP request is issued for that item.
Outside(o, lo, hi) == \E v \in o : ~(lo <= v /\ v <= hi)

OffendingMessages(p) ==
    {m \in {TemperatureRangeMessage, TopPRangeMessage, FrequencyRangeMessage,
            PresenceRangeMessage} :
        \/ m = TemperatureRangeMessage /\ Outside({p.temperature}, 0, 2)
        \/ m = TopPRangeMessage /\ Outside(p.additionalFields.top_p, 0, 1)
        \/ m = FrequencyRangeMessage /\ Outside(p.additionalFields.frequency_penalty, -2, 2)
        \/ m = PresenceRangeMessage /\ Outside(p.additionalFields.presence_penalty, -2, 2)}

ChatItemOfRange ==
    /\ variant = "range"
    /\ current.index >= 0
    /\ current.values.operation = "chat"

C7_OutOfRangeItemFailsBeforeRequest ==
    ChatItemOfRange /\ OffendingMessages(current.values) # {} =>
        /\ Issued(current.index) = 0
        /\ inflight = Absent
        /\ ItemFailedWith(OffendingMessages(current.values))

C7_Witness ==
    /\ ChatItemOfRange
    /\ current.index = 1
    /\ current.values.temperature = 1
    /\ current.values.additionalFields.top_p = Some(1)
    /\ current.values.additionalFields.presence_penalty = Some(3)
    /\ continueOnFail
    /\ Len(returnData) = 2
    /\ LastEntry.json = [error |-> PresenceRangeMessage, errorDetails |-> Absent]
    /\ Issued(1) = 0

\* C8: in the range-checking execute, options at their exact boundary values
\* (temperature 0 and 2, top_p 0 and 1, penalties -2 and 2) are accepted and
\* are in the request body with exactly the supplied value; a value one unit
\* beyond a boundary is rejected.
OnBoundaries(p) ==
    /\ p.temperature \in {0, 2}
    /\ p.additionalFields.top_p \subseteq {0, 1}
    /\ p.additionalFields.frequency_penalty \subseteq {-2, 2}
    /\ p.additionalFields.presence_penalty \subseteq {-2, 2}

OneBeyond(p) ==
    \/ p.temperature \in {-1, 3}
    \/ p.additionalFields.top_p \cap {-1, 2} # {}
    \/ p.additionalFields.frequency_penalty \cap {-3, 3} # {}
    \/ p.additionalFields.presence_penalty \cap {-3, 3} # {}

C8_BoundariesForwardedUnchanged ==
    ChatItemOfRange =>
        LET p == current.values IN
        /\ OnBoundaries(p) =>
              /\ Issued(current.index) = 1
              /\ \A r \in inflight :
                    /\ r.unit = current.index
                    /\ r.body.temperature = Some(p.temperature)
                    /\ r.body.top_p = p.additionalFields.top_p
                    /\ r.body.frequency_penalty = p.additionalFields.frequency_penalty
                    /\ r.body.presence_penalty = p.additionalFields.presence_penalty
        /\ OneBeyond(p) => Issued(current.index) = 0 /\ inflight = Absent

C8_Witness ==
    /\ ChatItemOfRange
    /\ pc = "await"
    /\ \E r \in inflight :
          /\ r.body.temperature = Some(2)
          /\ r.body.top_p = Some(0)
          /\ r.body.frequency_penalty = Some(-2)
          /\ r.body.presence_penalty = Some(2)

\* C9: every request body any variant sends carries a non-empty preset hash
\* and a messages sequence with at least one entry.
C9_BodyHasHashAndMessages ==
    \A r \in inflight :
        /\ r.body.hash # <<>>
        /\ r.body.messages # Absent
        /\ \A m \in r.body.messages : Len(m) >= 1

\* C10: in execute with continue-on-failure enabled, a failure on item i
\* (validation, transport or response shape) records a marker {error: message}
\* paired to item i and the loop goes on with item i+1: no item failure makes
\* execute throw, and execute returns once every item has been attempted.
ItemEnded == current.index >= 0 /\ pc \in {"loop", "returned", "threw"}

ItemFailed ==
    /\ ItemEnded
    /\ current.values.operation = "chat"
    /\ \/ reply.kind = "none"
       \/ reply.kind = "rejected"
       \/ reply.kind = "resolved" /\ ~TruthyOpt(FirstContent(reply.body))

C10_ContinueOnFailRecordsAndProceeds ==
    variant \in ExecuteVariants /\ continueOnFail =>
        /\ pc = "threw" => current = NoCurrent /\ thrown = Some(NoApiKeyMessage)
        /\ pc = "returned" => i = nItems
        /\ ItemEnded => i = current.index + 1
        /\ ItemFailed =>
              /\ Len(returnData) > 0
              /\ LastEntry.pairedItem.item = current.index
              /\ DOMAIN LastEntry.json = {"error", "errorDetails"}
              /\ reply.kind = "rejected" /\ variant # "range" =>
                    LastEntry.json.error = reply.error.message
        /\ pc \in {"loop", "await"} => ENABLED Execute

C10_Witness ==
    /\ variant = "plain"
    /\ continueOnFail
    /\ pc = "returned"
    /\ nItems = 2
    /\ Len(returnData) = 2
    /\ returnData[1].pairedItem.item = 0
    /\ "error" \in DOMAIN returnData[1].json
    /\ returnData[2].pairedItem.item = 1
    /\ "response" \in DOMAIN returnData[2].json

\* C11: in execute with continue-on-failure disabled, the first item that fails
\* ends the batch: execute throws that item's error and never returns, so the
\* entries of earlier items are not handed back, and no request is issued for
\* a later item; a batch that does return holds no failure.
ItemError ==
    IF reply.kind = "rejected" THEN Some(ItemRejection(variant, reply.error).message)
    ELSE IF reply.kind = "resolved"
    THEN {e.message : e \in ItemExtract(variant, reply.body).error}
    ELSE ItemBuild(variant, current.values).error

C11_FirstFailureAbortsBatch ==
    variant \in ExecuteVariants /\ ~continueOnFail =>
        /\ ItemFailed => pc = "threw" /\ thrown # Absent /\ thrown = ItemError
        /\ pc = "threw" =>
              /\ ~ENABLED Execute
              /\ inflight = Absent
              /\ \A unit \in DOMAIN reqCount : unit <= current.index
        /\ pc = "returned" =>
              \A k \in DOMAIN returnData : "response" \in DOMAIN returnData[k].json

C11_Witness ==
    /\ variant = "range"
    /\ ~continueOnFail
    /\ nItems = 2
    /\ current.index = 0
    /\ reply.kind = "rejected"
    /\ pc = "threw"
    /\ thrown = Some(RateLimitMessage)
    /\ Issued(0) = 1
    /\ Issued(1) = 0

\* C17: every HTTP request any variant issues is a POST to the chat completions
\* URL whose headers carry the credential's project id as project, the
\* credential's API key as apiKey, and Content-Type application/json.
C17_RequestLineAndHeaders ==
    \A r \in inflight :
        /\ r.method = "POST"
        /\ r.url = ChatCompletionsUrl
        /\ Some(r.headers.project) = credentials.project
        /\ Some(r.headers.apiKey) = credentials.apiKey
        /\ r.headers.contentType = "application/json"

\* C18: no retry: for each item of execute and each call of a supplied model
\* at most one HTTP request is issued, whatever the request came back with, and
\* once it has come back nothing is in flight for it.
C18_AtMostOneRequestPerUnit ==
    /\ \A unit \in DOMAIN reqCount : reqCount[unit] <= 1
    /\ reply.kind # "none" => inflight = Absent
    /\ \A r \in inflight : r.unit = current.index /\ Issued(r.unit) = 1

C18_Witness ==
    /\ variant = "node"
    /\ continueOnFail
    /\ reply = Rejected(HttpError(500, Absent))
    /\ pc = "loop"
    /\ i = 1
    /\ Issued(0) = 1
    /\ inflight = Absent

\* C12: in every variant, when the user supplies non-empty extra parameters (an
\* object with keys, or the JSON text of one), every request body holds them,
\* parsed, under the key params.
UserParams == IF variant \in ExecuteVariants THEN current.values.params ELSE closure.params

NonEmptyParams(value) == \E v \in ParsedParams(value) : v.t = "object" /\ v.keys # {}

C12_ParamsAttachedParsed ==
    \A r \in inflight :
        NonEmptyParams(UserParams) => r.body.params = ParsedParams(UserParams)

\* C13: in every variant that has the extra-parameter field, a malformed JSON
\* string makes the invocation fail with 'Invalid params format: ' followed by
\* the parse failure, and no HTTP request is issued for it.
MalformedParams(value) ==
    value.t = "string" /\ value.text # <<>> /\ JSONParse(value.text) = Absent

C13_MalformedParamsFailBeforeRequest ==
    /\ /\ variant \in ExecuteVariants
       /\ current.index >= 0
       /\ current.values.operation = "chat"
       /\ MalformedParams(current.values.params)
       => /\ Issued(current.index) = 0
          /\ ItemFailedWith({InvalidParams(SyntaxErrorMessage)})
    /\ /\ variant \in SupplyVariants
       /\ pc \in {"supplied", "await"}
       /\ MalformedParams(closure.params)
       => /\ TotalIssued = 0
          /\ /\ calls > 0
             /\ variant = "lmchat" => IsCompletionsEndpoint(current.values.url)
             => result = Threw(InvalidParams(SyntaxErrorMessage))

\* C14: in every variant, each sampling option the user supplies (temperature,
\* max_tokens, top_p, frequency_penalty, presence_penalty) is in the request
\* body under that key with the supplied value, and an option not supplied is
\* absent.  The max-tokens value -1 is left to C15; a fetch hook call is
\* considered when the client passed a body.
SamplingKeys == {"temperature", "max_tokens", "top_p", "frequency_penalty", "presence_penalty"}

SuppliedOption(key) ==
    IF variant \in SupplyVariants THEN closure.fields[key]
    ELSE IF key = "temperature" THEN Some(current.values.temperature)
    ELSE current.values.additionalFields[key]

ClientPassedBody == variant = "lmchat" => current.values.init # Absent

C14_SuppliedOptionsInBody ==
    \A r \in inflight :
        ClientPassedBody =>
            \A key \in SamplingKeys :
                SuppliedOption(key) # Some(-1) => r.body[key] = SuppliedOption(key)

\* C15: no request body any variant sends holds max_tokens = -1.
C15_NoSentinelMaxTokens ==
    \A r \in inflight : r.body.max_tokens # Some(-1)

\* C16: in every variant that offers a response format, when 'text' or
\* 'json_object' was selected the request body holds response_format as the
\* nested object {type: <format>}.
SelectedFormat ==
    CASE variant = "lmchat" -> closure.fields.responseFormat
      [] variant \in {"invoke", "wrapper"} -> closure.fields.response_format
      [] variant \in {"range", "plain"} -> current.values.additionalFields.response_format
      [] OTHER -> Absent

C16_ResponseFormatNested ==
    \A r \in inflight :
        ClientPassedBody =>
            \A f \in SelectedFormat :
                r.body.response_format = Some([nested |-> TRUE, type |-> f])

\* C19: two invocations with identical inputs against a deterministic HTTP mock
\* send identical request bodies and extract identical results.
C19_SameInputsSameBodyAndResult ==
    /\ \A j, k \in DOMAIN sent :
          sent[j].values = sent[k].values => sent[j].body = sent[k].body
    /\ \A j, k \in DOMAIN returnData :
          /\ "response" \in DOMAIN returnData[j].json
          /\ "response" \in DOMAIN returnData[k].json
          => returnData[j].json = returnData[k].json

\* C20: within one batch of execute, the request body of an item is the one
\* its own parameter values and the credentials determine, whatever items were
\* processed before it.
C20_ItemBodyFromOwnValues ==
    variant \in ExecuteVariants =>
        \A r \in inflight :
            /\ r.unit = current.index
            /\ Some(r.body) = ItemBuild(variant, current.values).body
            /\ r.headers = Headers(credentials)

\* C22: in execute, the message sequence sent is a system entry holding the
\* system prompt, first, if and only if the prompt is non-empty, followed by
\* one user entry holding the message; nothing else.
ExpectedMessages(p) ==
    (IF p.system_prompt # <<>> THEN <<[role |-> "system", content |-> p.system_prompt]>>
     ELSE <<>>)
        \o <<[role |-> "user", content |-> p.message]>>

C22_SystemThenUser ==
    variant \in ExecuteVariants =>
        \A r \in inflight : r.body.messages = Some(ExpectedMessages(current.values))

\* C24: in the range-checking execute, a resolved request is checked in a fixed
\* order: no response gives 'Empty response from API'; else choices that is no
\* array gives '...missing choices array'; else a first choice without
\* non-empty message.content gives '...missing message content'; a success
\* entry exists only when all three checks pass.
RangeItemResolved ==
    /\ variant = "range"
    /\ reply.kind = "resolved"
    /\ current.index >= 0

ExpectedResponseFailure(body) ==
    IF body = Absent THEN Some(EmptyResponseMessage)
    ELSE IF \E r \in body : r.choices # "array" THEN Some(MissingChoicesMessage)
    ELSE IF \E r \in body : BadChoices(r) THEN Some(MissingContentMessage)
    ELSE Absent

C24_ResponseChecksInOrder ==
    RangeItemResolved =>
        /\ ExpectedResponseFailure(reply.body) # Absent =>
              ItemFailedWith(ExpectedResponseFailure(reply.body))
        /\ /\ Len(returnData) > 0
           /\ LastEntry.pairedItem.item = current.index
           /\ "response" \in DOMAIN LastEntry.json
           => ExpectedResponseFailure(reply.body) = Absent

C24_Witness ==
    /\ RangeItemResolved
    /\ continueOnFail
    /\ reply.body = Some(ResponseBody("array", <<>>, Some(<<"i", "d">>)))
    /\ Len(returnData) = 1
    /\ LastEntry.json.error = MissingContentMessage

\* C25: the entries of returnData are in increasing input-item order, at most
\* one per item, each paired to the item that produced it; every step that
\* ends a chat item under continue-on-failure adds exactly one entry, paired
\* to that item, and a skipped item adds none; execute returns with all items
\* attempted.
EntriesInItemOrder ==
    /\ Len(returnData) <= i
    /\ \A k \in DOMAIN returnData : returnData[k].pairedItem.item \in 0 .. i - 1
    /\ \A j, k \in DOMAIN returnData :
          j < k => returnData[j].pairedItem.item < returnData[k].pairedItem.item
    /\ pc = "returned" => i = nItems

ItemStep ==
    i' = i + 1 =>
        IF current'.values.operation = "chat"
        THEN /\ Len(returnData') = Len(returnData) + 1
             /\ returnData'[Len(returnData')].pairedItem.item = i
             /\ SubSeq(returnData', 1, Len(returnData)) = returnData
        ELSE returnData' = returnData

C25_OneEntryPerItemInOrder == [](EntriesInItemOrder) /\ [][ItemStep]_vars

C25_Witness ==
    /\ variant = "node"
    /\ continueOnFail
    /\ pc = "returned"
    /\ nItems = 2
    /\ Len(returnData) = 2
    /\ returnData[1].pairedItem.item = 0
    /\ "response" \in DOMAIN returnData[1].json
    /\ returnData[2].pairedItem.item = 1
    /\ "error" \in DOMAIN returnData[2].json

\* C26: every success entry execute emits holds a non-empty response text.
C26_SuccessTextNonEmpty ==
    \A k \in DOMAIN returnData :
        "response" \in DOMAIN returnData[k].json => returnData[k].json.response # <<>>

\* C23: in the variants that classify transport failures, a request that
\* fails with status 400, 401, 403 or 429 surfaces that status's fixed
\* message, any other status s surfaces 'API Error (s): ' followed by the
\* server's message or, without one, the error's own message; one failure is
\* surfaced per failed call.
FailedWithStatus ==
    /\ variant \in ClassifyingVariants
    /\ reply.kind = "rejected"
    /\ reply.error.response # Absent

FailedStatus == CHOOSE st \in {resp.status : resp \in reply.error.response} : TRUE

FailedDetail ==
    LET given == UNION {resp.data : resp \in reply.error.response} \ {<<>>} IN
    IF given = {} THEN reply.error.message ELSE CHOOSE m \in given : TRUE

ExpectedStatusMessage ==
    IF FailedStatus = 400 THEN <<"Bad request: Please check your input parameters">>
    ELSE IF FailedStatus = 401
    THEN <<"Authentication failed: Please check your API credentials">>
    ELSE IF FailedStatus = 403
    THEN <<"Access forbidden: Please check your API permissions">>
    ELSE IF FailedStatus = 429 THEN <<"Too many requests: Please try again later">>
    ELSE <<"API Error (", ToString(FailedStatus), "): ">> \o FailedDetail

EntriesOfCurrent == {k \in DOMAIN returnData : returnData[k].pairedItem.item = current.index}

C23_StatusClassified ==
    FailedWithStatus =>
        IF variant = "range"
        THEN /\ ItemFailedWith({ExpectedStatusMessage})
             /\ Cardinality(EntriesOfCurrent) = IF continueOnFail THEN 1 ELSE 0
        ELSE result = Threw(ExpectedStatusMessage)

C23_Witness ==
    /\ variant = "wrapper"
    /\ reply = Rejected(HttpError(503, Some(ServerMessage)))
    /\ result = Threw(<<"API Error (", "503", "): ", "quota">>)

\* C27: the fetch hook of LmChatWantedLaaS answers a URL without
\* '/chat/completions' with status 404 and {error: 'Unsupported endpoint'} and
\* issues no request; once its request has come back it answers with a
\* Response and never throws: status 500 with {error: <message>} when the
\* request rejected, whatever the upstream status, and, when the request
\* resolved, status 200 with the normalized body (model falling back to the
\* preset hash) if the resolution is a response object, status 500 with the
\* message of the failed read of response.id if it is nothing.
HookCalled == variant = "lmchat" /\ current.index >= 1

NormalizedBody(r) ==
    [id |-> r.id, model |-> IF r.model \in {Absent, Some(<<>>)} THEN Some(closure.hash)
                            ELSE r.model,
     choices |-> r.choices, entries |-> r.entries, usage |-> r.usage]

HookAnswersUnsupported ==
    ~(current.values.url = ChatCompletionsUrl) =>
        /\ result = Ended([status |-> 404, json |-> [error |-> <<"Unsupported endpoint">>]])
        /\ Issued(current.index) = 0

HookAnswersRejection ==
    reply.kind = "rejected" =>
        result = Ended([status |-> 500, json |-> [error |-> reply.error.message]])

HookAnswersBody ==
    reply.kind = "resolved" =>
        \A r \in reply.body : result = Ended([status |-> 200, json |-> NormalizedBody(r)])

C27_HookAnswersEveryOutcome ==
    HookCalled =>
        /\ HookAnswersUnsupported
        /\ HookAnswersRejection
        /\ HookAnswersBody
        /\ reply.kind = "resolved" /\ reply.body = Absent =>
              /\ result.kind = "returned"
              /\ result.value.status = 500
              /\ result.value.json = [error |-> IdTypeError]
        /\ result.kind = "threw" => reply.kind = "none"

C27_Witness ==
    /\ HookCalled
    /\ reply = Resolved(Absent)
    /\ result.kind = "returned"
    /\ result.value.status = 500

\* C27 as stated: status 200 exactly when the upstream request resolved,
\* status 500 exactly when it rejected.
C27_Status200ExactlyWhenResolved ==
    HookCalled =>
        /\ HookAnswersUnsupported
        /\ HookAnswersRejection
        /\ HookAnswersBody
        /\ reply.kind = "resolved" => result.kind = "returned" /\ result.value.status = 200
        /\ result.kind = "threw" => reply.kind = "none"

\* C21: the API key appears in no diagnostic record the adapter writes: not on
\* the request-logging path, not on an error-logging path, in no variant.
LoggedHeaderTexts ==
    UNION {{h[k] : k \in DOMAIN h \ {"contentType"}} : h \in log.headers}

LoggedBodyTexts == UNION {{b.hash} : b \in log.body}

C21_ApiKeyNeverLogged ==
    \A key \in credentials.apiKey \ {<<>>} :
        /\ key \notin LoggedHeaderTexts
        /\ key \notin LoggedBodyTexts
        /\ key \notin log.message
        /\ key \notin log.response

====
